---- MODULE Spec2Model ----
(***************************************************************************)
(* Filesystem-backed ConfigMap store of k2d                                *)
(* (internal/adapter/store/filesystem/configmap.go).                       *)
(*                                                                         *)
(* The store directory is a function from file name to file content, both  *)
(* strings.  Every operation of FileSystemStore is one action; the file    *)
(* names are built, matched and taken apart with the same string           *)
(* operations as the Go code uses, on real strings.                        *)
(***************************************************************************)
EXTENDS Integers, Sequences, FiniteSets, TLC

VARIABLES dir, last, scope, mutex, procs

vars == <<dir, last, scope, mutex, procs>>

(***************************************************************************)
(* Go standard library string functions used by the store.                 *)
(***************************************************************************)

\* strings.HasPrefix
HasPrefix(s, prefix) ==
    Len(prefix) <= Len(s) /\ SubSeq(s, 1, Len(prefix)) = prefix

\* strings.HasSuffix
HasSuffix(s, suffix) ==
    Len(suffix) <= Len(s) /\ SubSeq(s, Len(s) - Len(suffix) + 1, Len(s)) = suffix

\* strings.TrimPrefix
TrimPrefix(s, prefix) ==
    IF HasPrefix(s, prefix) THEN SubSeq(s, Len(prefix) + 1, Len(s)) ELSE s

\* strings.Index, 1-based; 0 when substr does not occur in s
Index(s, substr) ==
    LET I == {i \in 1..(Len(s) - Len(substr) + 1) :
                 SubSeq(s, i, i + Len(substr) - 1) = substr}
    IN  IF I = {} THEN 0 ELSE CHOOSE i \in I : \A j \in I : i <= j

\* strings.Contains
Contains(s, substr) == Index(s, substr) # 0

\* the characters of the file names, in byte order
Alphabet == "\n-./0123456789=abcdefghijklmnopqrstuvwxyz"

\* the position of every character in byte order
CharRank ==
    [c \in {SubSeq(Alphabet, i, i) : i \in 1..Len(Alphabet)} |-> Index(Alphabet, c)]

\* byte-wise s < t, the order in which os.ReadDir returns the entries
RECURSIVE StrLess(_, _)
StrLess(s, t) ==
    IF Len(t) = 0 THEN FALSE
    ELSE IF Len(s) = 0 THEN TRUE
    ELSE LET a == CharRank[SubSeq(s, 1, 1)]
             b == CharRank[SubSeq(t, 1, 1)]
         IN  IF a # b THEN a < b
             ELSE StrLess(SubSeq(s, 2, Len(s)), SubSeq(t, 2, Len(t)))

\* path.Join of a clean directory and a file name without '/'
PathJoin(d, fileName) == d \o "/" \o fileName

(***************************************************************************)
(* Package constants.                                                      *)
(***************************************************************************)

ConfigMapSeparator == "-k2dcm-"

FilePathAnnotationKey == "store.k2d.io/filesystem/path"

NamespaceNameLabelKey == "namespace.k2d.io/name"

\* s.configMapPath, the directory of this store instance
configMapPath == "/k2d/configmaps"

ErrNil == "nil"

ErrResourceNotFound == "ErrResourceNotFound"

\* an error built with fmt.Errorf("...: %w", err) around a filesystem error
ErrIO == "IOFailure"

(***************************************************************************)
(* Naming.                                                                 *)
(***************************************************************************)

\* [namespace]-[configmap-name]-k2dcm.metadata
buildConfigMapMetadataFileName(configMapName, namespace) ==
    namespace \o "-" \o configMapName \o "-k2dcm.metadata"

\* [namespace]-[configmap-name]-k2dcm-
buildConfigMapFilePrefix(configMapName, namespace) ==
    namespace \o "-" \o configMapName \o ConfigMapSeparator

(***************************************************************************)
(* Maps (Go map[string]string) are functions with a finite set of strings  *)
(* as domain.                                                              *)
(***************************************************************************)

EmptyMap == [k \in {} |-> ""]

\* maputils.MergeMapsInPlace(map1, map2): the entries of map2 are written
\* into map1
MergeMapsInPlace(map1, map2) ==
    [k \in DOMAIN map1 \cup DOMAIN map2 |->
        IF k \in DOMAIN map2 THEN map2[k] ELSE map1[k]]

\* the least string of a non-empty set
MinStr(S) == CHOOSE s \in S : \A t \in S : s = t \/ StrLess(s, t)

(***************************************************************************)
(* Inputs.  An identity is a pair <<namespace, name>>.  A run is made by   *)
(* callers that use the identities of one scope; the scopes are the ways   *)
(* two identities can relate through their derived file names.             *)
(***************************************************************************)

Scopes ==
    {{<<"a", "c">>, <<"a-b", "c">>},               \* one namespace a prefix of the other
     {<<"a", "b-c">>, <<"a-b", "c">>},             \* '-' in a name and in a namespace
     {<<"a", "k2dcm">>, <<"a-k2dcm", "k2dcm">>}}   \* the word of the separator as a name

LabelSets ==
    {[k \in {"env"} |-> "prod"], [k \in {NamespaceNameLabelKey} |-> "other"]}

DataMaps ==
    {EmptyMap,
     [k \in {"x", "y"} |-> IF k = "x" THEN "1" ELSE ""],
     [k \in {"x"} |-> "2"]}

(***************************************************************************)
(* Metadata codec: one "key=value" line per label.                         *)
(***************************************************************************)

RECURSIVE EncodeMetadata(_)
EncodeMetadata(metadata) ==
    IF DOMAIN metadata = {} THEN ""
    ELSE LET k == MinStr(DOMAIN metadata)
         IN  k \o "=" \o metadata[k] \o "\n"
               \o EncodeMetadata([j \in DOMAIN metadata \ {k} |-> metadata[j]])

\* the result of parsing the lines of a metadata file: ok is FALSE when a
\* line has no '='
RECURSIVE DecodeMetadata(_)
DecodeMetadata(text) ==
    IF Len(text) = 0 THEN [ok |-> TRUE, metadata |-> EmptyMap]
    ELSE LET nl   == Index(text, "\n")
             line == IF nl = 0 THEN text ELSE SubSeq(text, 1, nl - 1)
             rest == IF nl = 0 THEN "" ELSE SubSeq(text, nl + 1, Len(text))
             eq   == Index(line, "=")
             tail == DecodeMetadata(rest)
         IN  IF eq = 0 \/ ~tail.ok THEN [ok |-> FALSE, metadata |-> EmptyMap]
             ELSE [ok |-> TRUE,
                   metadata |->
                     MergeMapsInPlace(
                       [k \in {SubSeq(line, 1, eq - 1)} |->
                          SubSeq(line, eq + 1, Len(line))],
                       tail.metadata)]

\* the metadata files StoreConfigMap writes for the inputs above, decoded
\* once
DecodedMetadata ==
    [text \in {EncodeMetadata(
                  MergeMapsInPlace([k \in {NamespaceNameLabelKey} |-> id[1]], l)) :
                  id \in UNION Scopes, l \in LabelSets} |-> DecodeMetadata(text)]

(***************************************************************************)
(* Filesystem.  A fault names the one filesystem call that fails for an    *)
(* underlying reason during an operation: the directory read, or every     *)
(* call on one file.                                                       *)
(***************************************************************************)

NoFault == [kind |-> "none", file |-> ""]

ReadDirFault == [kind |-> "readdir", file |-> ""]

FileFault(f) == [kind |-> "file", file |-> f]

Fails(fault, f) == fault.kind = "file" /\ fault.file = f

\* the value of a nil *core.ConfigMap and of an empty core.ConfigMapList
NoConfigMap == EmptyMap

\* the directory d without the files of S
RemoveFiles(d, S) == [f \in DOMAIN d \ S |-> d[f]]

\* filesystem.LoadMetadataFromDisk
LoadMetadataFromDisk(d, fileName, fault) ==
    IF fileName \notin DOMAIN d \/ Fails(fault, fileName)
    THEN [err |-> ErrIO, metadata |-> EmptyMap]
    ELSE LET dec == IF d[fileName] \in DOMAIN DecodedMetadata
                    THEN DecodedMetadata[d[fileName]]
                    ELSE DecodeMetadata(d[fileName])
         IN  IF dec.ok THEN [err |-> ErrNil, metadata |-> dec.metadata]
             ELSE [err |-> ErrIO, metadata |-> EmptyMap]

\* filesystem.StoreMetadataOnDisk
StoreMetadataOnDisk(d, fileName, metadata, fault) ==
    IF Fails(fault, fileName) THEN [err |-> ErrIO, dir |-> d]
    ELSE [err |-> ErrNil,
          dir |-> [f \in DOMAIN d \cup {fileName} |->
                     IF f = fileName THEN EncodeMetadata(metadata) ELSE d[f]]]

\* filesystem.StoreDataMapOnDisk: one file filePrefix+key per key, written in
\* the iteration order of the map; when the write of one file fails, the keys
\* of written are those the iteration reached before it
StoreDataMapOnDisk(d, filePrefix, data, fault, written) ==
    LET failing == {k \in DOMAIN data : Fails(fault, filePrefix \o k)}
        keys    == IF failing = {} THEN DOMAIN data ELSE written \ failing
        names   == {filePrefix \o k : k \in keys}
    IN  [err |-> IF failing = {} THEN ErrNil ELSE ErrIO,
         dir |-> [f \in DOMAIN d \cup names |->
                    IF f \in names THEN data[TrimPrefix(f, filePrefix)] ELSE d[f]]]

(***************************************************************************)
(* The operations of FileSystemStore, as functions of the directory d.     *)
(***************************************************************************)

\* DeleteConfigMap that goes on to the data files when the removal of the
\* metadata file has failed
DeleteConfigMapResult_IgnoresMetadataError(d, configMapName, namespace, fault) ==
    LET files            == DOMAIN d
        filePrefix       == buildConfigMapFilePrefix(configMapName, namespace)
        matching         == {f \in files : HasPrefix(f, filePrefix)}
        metadataFileName == buildConfigMapMetadataFileName(configMapName, namespace)
        failing          == {f \in matching :
                               f = metadataFileName \/ Fails(fault, f)}
        removed          == IF failing = {} THEN matching
                            ELSE {f \in matching : StrLess(f, MinStr(failing))}
    IN  IF fault.kind = "readdir" THEN [err |-> ErrIO, dir |-> d]
        ELSE IF matching = {} THEN [err |-> ErrResourceNotFound, dir |-> d]
        ELSE [err |-> IF failing = {} /\ metadataFileName \in files
                         /\ ~Fails(fault, metadataFileName)
                      THEN ErrNil ELSE ErrIO,
              dir |-> RemoveFiles(d,
                        (IF Fails(fault, metadataFileName) THEN {}
                         ELSE {metadataFileName}) \cup removed)]

\* DeleteConfigMap that removes the metadata file before it looks for a
\* matching file
DeleteConfigMapResult_RemovesMetadataFirst(d, configMapName, namespace, fault) ==
    LET files            == DOMAIN d
        filePrefix       == buildConfigMapFilePrefix(configMapName, namespace)
        matching         == {f \in files : HasPrefix(f, filePrefix)}
        metadataFileName == buildConfigMapMetadataFileName(configMapName, namespace)
        failing          == {f \in matching :
                               f = metadataFileName \/ Fails(fault, f)}
        removed          == IF failing = {} THEN matching
                            ELSE {f \in matching : StrLess(f, MinStr(failing))}
    IN  IF fault.kind = "readdir" THEN [err |-> ErrIO, dir |-> d]
        ELSE IF matching = {}
             THEN [err |-> ErrResourceNotFound,
                   dir |-> IF Fails(fault, metadataFileName) THEN d
                           ELSE RemoveFiles(d, {metadataFileName})]
        ELSE IF metadataFileName \notin files \/ Fails(fault, metadataFileName)
             THEN [err |-> ErrIO, dir |-> d]
        ELSE [err |-> IF failing = {} THEN ErrNil ELSE ErrIO,
              dir |-> RemoveFiles(d, {metadataFileName} \cup removed)]

\* DeleteConfigMap: the error returned and the directory left behind
DeleteConfigMapResult(d, configMapName, namespace, fault) ==
    LET files            == DOMAIN d
        filePrefix       == buildConfigMapFilePrefix(configMapName, namespace)
        matching         == {f \in files : HasPrefix(f, filePrefix)}
        metadataFileName == buildConfigMapMetadataFileName(configMapName, namespace)
        \* os.Remove of a data file fails when the file is gone or on a fault
        failing          == {f \in matching :
                               f = metadataFileName \/ Fails(fault, f)}
        removed          == IF failing = {} THEN matching
                            ELSE {f \in matching : StrLess(f, MinStr(failing))}
    IN  IF fault.kind = "readdir" THEN [err |-> ErrIO, dir |-> d]
        ELSE IF matching = {} THEN [err |-> ErrResourceNotFound, dir |-> d]
        ELSE IF metadataFileName \notin files \/ Fails(fault, metadataFileName)
             THEN [err |-> ErrIO, dir |-> d]
        ELSE [err |-> IF failing = {} THEN ErrNil ELSE ErrIO,
              dir |-> RemoveFiles(d, {metadataFileName} \cup removed)]

\* GetConfigMapBinds that trims the annotation prefix without the '/'
GetConfigMapBinds_NoSlash(configMap) ==
    LET keys == {key \in DOMAIN configMap.Annotations :
                    HasPrefix(key, FilePathAnnotationKey)}
        name(key) == TrimPrefix(key, FilePathAnnotationKey)
        names == {name(key) : key \in keys}
        lastWritten == {w \in [names -> keys] : \A b \in names : name(w[b]) = b}
    IN  {[b \in names |-> configMap.Annotations[w[b]]] : w \in lastWritten}

\* GetConfigMapBinds: the set of the maps the loop can return.  The loop
\* ranges over the annotations in the unspecified iteration order of a Go
\* map, so when two annotation keys are trimmed to the same name, the value
\* of either one can be the one written last.
GetConfigMapBinds(configMap) ==
    LET keys == {key \in DOMAIN configMap.Annotations :
                    HasPrefix(key, FilePathAnnotationKey)}
        name(key) == TrimPrefix(key, FilePathAnnotationKey \o "/")
        names == {name(key) : key \in keys}
        lastWritten == {w \in [names -> keys] : \A b \in names : name(w[b]) = b}
    IN  {[b \in names |-> configMap.Annotations[w[b]]] : w \in lastWritten}

\* the data map built from the directory entries that start with filePrefix
DataOfFiles(d, filePrefix) ==
    LET matching == {f \in DOMAIN d : HasPrefix(f, filePrefix)}
    IN  [k \in {TrimPrefix(f, filePrefix) : f \in matching} |-> d[filePrefix \o k]]

\* GetConfigMap that goes on with no labels when the metadata cannot be loaded
GetConfigMapResult_IgnoresMetadataError(d, configMapName, namespace, fault) ==
    LET files            == DOMAIN d
        filePrefix       == buildConfigMapFilePrefix(configMapName, namespace)
        matching         == {f \in files : HasPrefix(f, filePrefix)}
        metadataFileName == buildConfigMapMetadataFileName(configMapName, namespace)
        loaded           == LoadMetadataFromDisk(d, metadataFileName, fault)
        data             == DataOfFiles(d, filePrefix)
    IN  IF fault.kind = "readdir" THEN [err |-> ErrIO, configMap |-> NoConfigMap]
        ELSE IF matching = {}
             THEN [err |-> ErrResourceNotFound, configMap |-> NoConfigMap]
        ELSE IF \E f \in matching : Fails(fault, f)
             THEN [err |-> ErrIO, configMap |-> NoConfigMap]
        ELSE [err |-> ErrNil,
              configMap |->
                [Name        |-> configMapName,
                 Namespace   |-> namespace,
                 Labels      |-> loaded.metadata,
                 Annotations |->
                    [a \in {FilePathAnnotationKey \o "/" \o k : k \in DOMAIN data} |->
                       PathJoin(configMapPath,
                                filePrefix \o TrimPrefix(a, FilePathAnnotationKey \o "/"))],
                 Data        |-> data]]

\* GetConfigMap that loads the metadata before it looks for a matching file
GetConfigMapResult_MetadataFirst(d, configMapName, namespace, fault) ==
    LET files            == DOMAIN d
        filePrefix       == buildConfigMapFilePrefix(configMapName, namespace)
        matching         == {f \in files : HasPrefix(f, filePrefix)}
        metadataFileName == buildConfigMapMetadataFileName(configMapName, namespace)
        loaded           == LoadMetadataFromDisk(d, metadataFileName, fault)
        data             == DataOfFiles(d, filePrefix)
    IN  IF fault.kind = "readdir" THEN [err |-> ErrIO, configMap |-> NoConfigMap]
        ELSE IF loaded.err # ErrNil THEN [err |-> ErrIO, configMap |-> NoConfigMap]
        ELSE IF matching = {}
             THEN [err |-> ErrResourceNotFound, configMap |-> NoConfigMap]
        ELSE IF \E f \in matching : Fails(fault, f)
             THEN [err |-> ErrIO, configMap |-> NoConfigMap]
        ELSE [err |-> ErrNil,
              configMap |->
                [Name        |-> configMapName,
                 Namespace   |-> namespace,
                 Labels      |-> loaded.metadata,
                 Annotations |->
                    [a \in {FilePathAnnotationKey \o "/" \o k : k \in DOMAIN data} |->
                       PathJoin(configMapPath,
                                filePrefix \o TrimPrefix(a, FilePathAnnotationKey \o "/"))],
                 Data        |-> data]]

\* GetConfigMap
GetConfigMapResult(d, configMapName, namespace, fault) ==
    LET files            == DOMAIN d
        filePrefix       == buildConfigMapFilePrefix(configMapName, namespace)
        matching         == {f \in files : HasPrefix(f, filePrefix)}
        metadataFileName == buildConfigMapMetadataFileName(configMapName, namespace)
        loaded           == LoadMetadataFromDisk(d, metadataFileName, fault)
        data             == DataOfFiles(d, filePrefix)
    IN  IF fault.kind = "readdir" THEN [err |-> ErrIO, configMap |-> NoConfigMap]
        ELSE IF matching = {}
             THEN [err |-> ErrResourceNotFound, configMap |-> NoConfigMap]
        ELSE IF loaded.err # ErrNil THEN [err |-> ErrIO, configMap |-> NoConfigMap]
        ELSE IF \E f \in matching : Fails(fault, f)
             THEN [err |-> ErrIO, configMap |-> NoConfigMap]
        ELSE [err |-> ErrNil,
              configMap |->
                [Name        |-> configMapName,
                 Namespace   |-> namespace,
                 Labels      |-> loaded.metadata,
                 Annotations |->
                    [a \in {FilePathAnnotationKey \o "/" \o k : k \in DOMAIN data} |->
                       PathJoin(configMapPath,
                                filePrefix \o TrimPrefix(a, FilePathAnnotationKey \o "/"))],
                 Data        |-> data]]

\* StoreConfigMap that builds the data-file prefix with the name and the
\* namespace in the wrong order
StoreConfigMapResult_SwappedPrefix(d, configMap, fault, written) ==
    LET labels == MergeMapsInPlace(
                     [k \in {NamespaceNameLabelKey} |-> configMap.Namespace],
                     configMap.Labels)
        metadataFileName ==
            buildConfigMapMetadataFileName(configMap.Name, configMap.Namespace)
        meta       == StoreMetadataOnDisk(d, metadataFileName, labels, fault)
        filePrefix == buildConfigMapFilePrefix(configMap.Namespace, configMap.Name)
    IN  IF meta.err # ErrNil THEN [err |-> ErrIO, dir |-> d]
        ELSE StoreDataMapOnDisk(meta.dir, filePrefix, configMap.Data, fault, written)

\* StoreConfigMap that removes the data files of the previous version first
StoreConfigMapResult_CleansStaleKeys(d, configMap, fault, written) ==
    LET labels == MergeMapsInPlace(
                     [k \in {NamespaceNameLabelKey} |-> configMap.Namespace],
                     configMap.Labels)
        metadataFileName ==
            buildConfigMapMetadataFileName(configMap.Name, configMap.Namespace)
        meta       == StoreMetadataOnDisk(d, metadataFileName, labels, fault)
        filePrefix == buildConfigMapFilePrefix(configMap.Name, configMap.Namespace)
        stale      == {f \in DOMAIN meta.dir : HasPrefix(f, filePrefix)}
    IN  IF meta.err # ErrNil THEN [err |-> ErrIO, dir |-> d]
        ELSE StoreDataMapOnDisk(RemoveFiles(meta.dir, stale), filePrefix,
                                configMap.Data, fault, written)

\* StoreConfigMap
StoreConfigMapResult(d, configMap, fault, written) ==
    LET labels == MergeMapsInPlace(
                     [k \in {NamespaceNameLabelKey} |-> configMap.Namespace],
                     configMap.Labels)
        metadataFileName ==
            buildConfigMapMetadataFileName(configMap.Name, configMap.Namespace)
        meta       == StoreMetadataOnDisk(d, metadataFileName, labels, fault)
        filePrefix == buildConfigMapFilePrefix(configMap.Name, configMap.Namespace)
    IN  IF meta.err # ErrNil THEN [err |-> ErrIO, dir |-> d]
        ELSE StoreDataMapOnDisk(meta.dir, filePrefix, configMap.Data, fault, written)

\* str.UniquePrefixes: the part of every item before the first separator
UniquePrefixes(list, separator) ==
    {IF Contains(item, separator)
        THEN SubSeq(item, 1, Index(item, separator) - 1)
        ELSE item : item \in list}

\* str.FilterStringsByPrefix
FilterStringsByPrefix(input, prefix) == {item \in input : HasPrefix(item, prefix)}

\* str.RemoveItemsWithSuffix
RemoveItemsWithSuffix(input, suffix) == {item \in input : ~HasSuffix(item, suffix)}

\* the value of a key of a Go map, "" when the key is absent
MapGet(m, k) == IF k \in DOMAIN m THEN m[k] ELSE ""

\* GetConfigMaps that skips the unique names it cannot load and returns the
\* items of the others
GetConfigMapsResult_SkipsFailing(d, namespace, fault) ==
    LET files       == DOMAIN d
        uniqueNames == RemoveItemsWithSuffix(
                         FilterStringsByPrefix(
                           UniquePrefixes(files, ConfigMapSeparator), namespace),
                         ".metadata")
        metadataFileName(name) == name \o "-k2dcm.metadata"
        loaded(name) == LoadMetadataFromDisk(d, metadataFileName(name), fault)
        itemNamespace(name) == MapGet(loaded(name).metadata, NamespaceNameLabelKey)
        itemName(name) == TrimPrefix(name, itemNamespace(name) \o "-")
        filePrefix(name) ==
            buildConfigMapFilePrefix(itemName(name), itemNamespace(name))
        failed(name) ==
            \/ loaded(name).err # ErrNil
            \/ \E f \in files : HasPrefix(f, filePrefix(name)) /\ Fails(fault, f)
    IN  IF fault.kind = "readdir" THEN [err |-> ErrIO, Items |-> NoConfigMap]
        ELSE [err |-> ErrNil,
              Items |->
                [name \in {n \in uniqueNames : ~failed(n)} |->
                   [Name        |-> itemName(name),
                    Namespace   |-> itemNamespace(name),
                    Labels      |-> loaded(name).metadata,
                    Annotations |-> EmptyMap,
                    Data        |-> DataOfFiles(d, filePrefix(name))]]]

\* GetConfigMaps.  Items maps every unique name the loop visits to the item
\* appended for it (the order of the items is the iteration order of a map).
GetConfigMapsResult(d, namespace, fault) ==
    LET files       == DOMAIN d
        uniqueNames == RemoveItemsWithSuffix(
                         FilterStringsByPrefix(
                           UniquePrefixes(files, ConfigMapSeparator), namespace),
                         ".metadata")
        metadataFileName(name) == name \o "-k2dcm.metadata"
        loaded(name) == LoadMetadataFromDisk(d, metadataFileName(name), fault)
        itemNamespace(name) == MapGet(loaded(name).metadata, NamespaceNameLabelKey)
        itemName(name) == TrimPrefix(name, itemNamespace(name) \o "-")
        filePrefix(name) ==
            buildConfigMapFilePrefix(itemName(name), itemNamespace(name))
        failed(name) ==
            \/ loaded(name).err # ErrNil
            \/ \E f \in files : HasPrefix(f, filePrefix(name)) /\ Fails(fault, f)
    IN  IF fault.kind = "readdir" THEN [err |-> ErrIO, Items |-> NoConfigMap]
        ELSE IF \E name \in uniqueNames : failed(name)
             THEN [err |-> ErrIO, Items |-> NoConfigMap]
        ELSE [err |-> ErrNil,
              Items |->
                [name \in uniqueNames |->
                   [Name        |-> itemName(name),
                    Namespace   |-> itemNamespace(name),
                    Labels      |-> loaded(name).metadata,
                    Annotations |-> EmptyMap,
                    Data        |-> DataOfFiles(d, filePrefix(name))]]]

\* the resources handed to StoreConfigMap by the callers of scope S
ConfigMaps(S) ==
    {[Name |-> id[2], Namespace |-> id[1], Labels |-> l, Data |-> dm] :
        id \in S, l \in LabelSets, dm \in DataMaps}

\* the faults that can hit an operation that touches the files of S
FaultsOn(S) == {NoFault, ReadDirFault} \cup {FileFault(f) : f \in S}

\* the files an operation on (configMapName, namespace) touches
FilesOf(d, configMapName, namespace) ==
    {buildConfigMapMetadataFileName(configMapName, namespace)} \cup
    {f \in DOMAIN d : HasPrefix(f, buildConfigMapFilePrefix(configMapName, namespace))}

\* the files StoreConfigMap writes for configMap
FilesWritten(configMap) ==
    {buildConfigMapMetadataFileName(configMap.Name, configMap.Namespace)} \cup
    {buildConfigMapFilePrefix(configMap.Name, configMap.Namespace) \o k :
        k \in DOMAIN configMap.Data}

(***************************************************************************)
(* Sequential specification: the operations run one at a time.             *)
(***************************************************************************)

Init ==
    /\ dir = EmptyMap
    /\ last = [op |-> "none"]
    /\ scope \in Scopes
    /\ mutex = "free"
    /\ procs = EmptyMap

\* StoreConfigMap when every write succeeds
StoreConfigMap ==
    /\ \E configMap \in ConfigMaps(scope) :
         LET r == StoreConfigMapResult(dir, configMap, NoFault, DOMAIN configMap.Data)
         IN  /\ dir' = r.dir
             /\ last' = [op |-> "Store", configMap |-> configMap, fault |-> NoFault,
                         err |-> r.err]
    /\ UNCHANGED <<scope, mutex, procs>>

\* StoreConfigMap when the write of one file fails; the data files of the
\* keys of written are those written before the failing one
StoreConfigMapFailing ==
    /\ \E configMap \in ConfigMaps(scope) :
       \E f \in FilesWritten(configMap) :
       \E written \in SUBSET DOMAIN configMap.Data :
         LET r == StoreConfigMapResult(dir, configMap, FileFault(f), written)
             filePrefix ==
                 buildConfigMapFilePrefix(configMap.Name, configMap.Namespace)
         IN  /\ f \notin {filePrefix \o k : k \in written}
             /\ f \notin {filePrefix \o k : k \in DOMAIN configMap.Data}
                    => written = {}
             /\ dir' = r.dir
             /\ last' = [op |-> "Store", configMap |-> configMap,
                         fault |-> FileFault(f), err |-> r.err]
    /\ UNCHANGED <<scope, mutex, procs>>

DeleteConfigMap ==
    /\ \E id \in scope :
       \E fault \in FaultsOn(FilesOf(dir, id[2], id[1])) :
         LET r == DeleteConfigMapResult(dir, id[2], id[1], fault)
         IN  /\ dir' = r.dir
             /\ last' = [op |-> "Delete", name |-> id[2], namespace |-> id[1],
                         fault |-> fault, err |-> r.err]
    /\ UNCHANGED <<scope, mutex, procs>>

GetConfigMap ==
    /\ \E id \in scope :
       \E fault \in FaultsOn(FilesOf(dir, id[2], id[1])) :
         LET r == GetConfigMapResult(dir, id[2], id[1], fault)
         IN  last' = [op |-> "Get", name |-> id[2], namespace |-> id[1],
                      err |-> r.err, configMap |-> r.configMap]
    /\ UNCHANGED <<dir, scope, mutex, procs>>

GetConfigMaps ==
    /\ \E namespace \in {id[1] : id \in scope} :
       \E fault \in FaultsOn(DOMAIN dir) :
         LET r == GetConfigMapsResult(dir, namespace, fault)
         IN  last' = [op |-> "List", namespace |-> namespace, err |-> r.err,
                      Items |-> r.Items]
    /\ UNCHANGED <<dir, scope, mutex, procs>>

\* GetConfigMapBinds on the resource the last GetConfigMap returned
GetConfigMapBindsCall ==
    /\ last.op = "Get" /\ last.err = ErrNil
    /\ \E binds \in GetConfigMapBinds(last.configMap) :
          last' = [op |-> "Binds", configMap |-> last.configMap, binds |-> binds]
    /\ UNCHANGED <<dir, scope, mutex, procs>>

Next ==
    \/ StoreConfigMap
    \/ DeleteConfigMap
    \/ GetConfigMap
    \/ GetConfigMaps
    \/ GetConfigMapBindsCall

Spec == Init /\ [][Next]_vars

\* the sequential specification with failing writes of StoreConfigMap
NextF == Next \/ StoreConfigMapFailing

SpecF == Init /\ [][NextF]_vars

(***************************************************************************)
(* Concurrent specification: callers run the operations step by step, one  *)
(* filesystem call per step, between s.mutex.Lock() and the deferred       *)
(* s.mutex.Unlock().                                                       *)
(***************************************************************************)

\* the number of calls the callers make in a run
MaxCalls == 3

\* the concurrent callers
Procs == {"p1", "p2"}

\* the identity the concurrent callers work on
ConcIdentity == <<"a", "c">>

ConcConfigMaps ==
    {cm \in ConfigMaps({ConcIdentity}) :
        "env" \in DOMAIN cm.Labels /\ DOMAIN cm.Data # {}}

\* the calls a caller can make
ConcOps ==
    {[kind |-> "Store", name |-> cm.Name, namespace |-> cm.Namespace,
      configMap |-> cm] : cm \in ConcConfigMaps}
    \cup {[kind |-> k, name |-> ConcIdentity[2], namespace |-> ConcIdentity[1],
           configMap |-> NoConfigMap] : k \in {"Get", "Delete", "List"}}

NoOp == [kind |-> "none", name |-> "", namespace |-> "", configMap |-> NoConfigMap]

NoResult == [err |-> "none"]

\* a caller that is in no call: op is the call it is in, snap the directory
\* when it took the mutex, files the listing os.ReadDir gave it, todo what its
\* loop still has to visit, res the result it has built so far
IdleProc ==
    [pc |-> "idle", op |-> NoOp, snap |-> EmptyMap, files |-> {}, todo |-> {},
     res |-> NoResult, calls |-> 0]

RECURSIVE TotalCalls(_, _)
TotalCalls(pr, S) ==
    IF S = {} THEN 0
    ELSE LET q == CHOOSE q \in S : TRUE
         IN  pr[q].calls + TotalCalls(pr, S \ {q})

\* the positions at which a caller is between Lock and Unlock
Holding == {"metadata", "data", "readdir", "loadmeta", "read", "rmmeta",
            "rmdata", "item", "unlock"}

InitC ==
    /\ dir = EmptyMap
    /\ last = [op |-> "none"]
    /\ scope = {ConcIdentity}
    /\ mutex = "free"
    /\ procs = [p \in Procs |-> IdleProc]

\* a caller enters one of the operations
Call(p) ==
    /\ procs[p].pc = "idle"
    /\ TotalCalls(procs, Procs) < MaxCalls
    /\ \E op \in ConcOps :
         procs' = [procs EXCEPT ![p] =
                     [IdleProc EXCEPT !.pc = "lock", !.op = op,
                                      !.calls = procs[p].calls + 1]]
    /\ UNCHANGED <<dir, last, scope, mutex>>

\* s.mutex.Lock() that does not wait for the holder
Lock_NoWait(p) ==
    /\ procs[p].pc = "lock"
    /\ mutex' = p
    /\ procs' = [procs EXCEPT ![p].pc =
                    IF procs[p].op.kind = "Store" THEN "metadata" ELSE "readdir",
                              ![p].snap = dir]
    /\ UNCHANGED <<dir, last, scope>>

\* s.mutex.Lock()
Lock(p) ==
    /\ procs[p].pc = "lock"
    /\ mutex = "free"
    /\ mutex' = p
    /\ procs' = [procs EXCEPT ![p].pc =
                    IF procs[p].op.kind = "Store" THEN "metadata" ELSE "readdir",
                              ![p].snap = dir]
    /\ UNCHANGED <<dir, last, scope>>

\* StoreConfigMap: filesystem.StoreMetadataOnDisk
StoreWriteMetadata(p) ==
    /\ procs[p].pc = "metadata"
    /\ LET cm == procs[p].op.configMap
           labels == MergeMapsInPlace(
                        [k \in {NamespaceNameLabelKey} |-> cm.Namespace], cm.Labels)
       IN  /\ dir' = StoreMetadataOnDisk(dir,
                        buildConfigMapMetadataFileName(cm.Name, cm.Namespace),
                        labels, NoFault).dir
           /\ procs' = [procs EXCEPT ![p].pc = "data", ![p].todo = DOMAIN cm.Data]
    /\ UNCHANGED <<last, scope, mutex>>

\* StoreConfigMap: filesystem.StoreDataMapOnDisk writes the file of one more
\* key, or returns
StoreWriteData(p) ==
    /\ procs[p].pc = "data"
    /\ LET cm == procs[p].op.configMap
           filePrefix == buildConfigMapFilePrefix(cm.Name, cm.Namespace)
       IN  IF procs[p].todo = {}
           THEN /\ procs' = [procs EXCEPT ![p].pc = "unlock",
                                          ![p].res = [err |-> ErrNil]]
                /\ dir' = dir
           ELSE \E k \in procs[p].todo :
                  /\ dir' = StoreDataMapOnDisk(dir, filePrefix,
                               [j \in {k} |-> cm.Data[j]], NoFault, {k}).dir
                  /\ procs' = [procs EXCEPT ![p].todo = procs[p].todo \ {k}]
    /\ UNCHANGED <<last, scope, mutex>>

\* GetConfigMap, DeleteConfigMap, GetConfigMaps: os.ReadDir and the test for
\* a matching file
ReadDir(p) ==
    /\ procs[p].pc = "readdir"
    /\ LET op == procs[p].op
           files == DOMAIN dir
           matching == {f \in files :
                          HasPrefix(f, buildConfigMapFilePrefix(op.name, op.namespace))}
       IN  procs' = [procs EXCEPT ![p] =
             IF op.kind = "List"
             THEN [procs[p] EXCEPT !.pc = "item", !.files = files,
                     !.todo = RemoveItemsWithSuffix(
                                FilterStringsByPrefix(
                                  UniquePrefixes(files, ConfigMapSeparator),
                                  op.namespace),
                                ".metadata"),
                     !.res = [err |-> ErrNil, Items |-> EmptyMap]]
             ELSE IF matching = {}
             THEN [procs[p] EXCEPT !.pc = "unlock", !.files = files,
                     !.res = IF op.kind = "Get"
                             THEN [err |-> ErrResourceNotFound,
                                   configMap |-> NoConfigMap]
                             ELSE [err |-> ErrResourceNotFound]]
             ELSE [procs[p] EXCEPT !.files = files, !.todo = matching,
                     !.pc = IF op.kind = "Get" THEN "loadmeta" ELSE "rmmeta"]]
    /\ UNCHANGED <<dir, last, scope, mutex>>

\* GetConfigMap: filesystem.LoadMetadataFromDisk
GetLoadMetadata(p) ==
    /\ procs[p].pc = "loadmeta"
    /\ LET op == procs[p].op
           loaded == LoadMetadataFromDisk(dir,
                        buildConfigMapMetadataFileName(op.name, op.namespace), NoFault)
       IN  procs' = [procs EXCEPT ![p] =
             IF loaded.err # ErrNil
             THEN [procs[p] EXCEPT !.pc = "unlock",
                     !.res = [err |-> ErrIO, configMap |-> NoConfigMap]]
             ELSE [procs[p] EXCEPT !.pc = "read",
                     !.res = [err |-> ErrNil,
                              configMap |-> [Name |-> op.name,
                                             Namespace |-> op.namespace,
                                             Labels |-> loaded.metadata,
                                             Annotations |-> EmptyMap,
                                             Data |-> EmptyMap]]]]
    /\ UNCHANGED <<dir, last, scope, mutex>>

\* GetConfigMap: os.ReadFile and os.Stat of the next matching file of the
\* listing, or the return after the last one
GetReadFile(p) ==
    /\ procs[p].pc = "read"
    /\ LET op == procs[p].op
           filePrefix == buildConfigMapFilePrefix(op.name, op.namespace)
           f == MinStr(procs[p].todo)
           k == TrimPrefix(f, filePrefix)
           cm == procs[p].res.configMap
       IN  procs' = [procs EXCEPT ![p] =
             IF procs[p].todo = {} THEN [procs[p] EXCEPT !.pc = "unlock"]
             ELSE IF f \notin DOMAIN dir
             THEN [procs[p] EXCEPT !.pc = "unlock",
                     !.res = [err |-> ErrIO, configMap |-> NoConfigMap]]
             ELSE [procs[p] EXCEPT !.todo = procs[p].todo \ {f},
                     !.res = [err |-> ErrNil,
                              configMap |->
                                [cm EXCEPT
                                   !.Data = MergeMapsInPlace(cm.Data,
                                               [j \in {k} |-> dir[f]]),
                                   !.Annotations = MergeMapsInPlace(cm.Annotations,
                                       [j \in {FilePathAnnotationKey \o "/" \o k} |->
                                           PathJoin(configMapPath, f)])]]]]
    /\ UNCHANGED <<dir, last, scope, mutex>>

\* DeleteConfigMap: os.Remove of the metadata file
DeleteRemoveMetadata(p) ==
    /\ procs[p].pc = "rmmeta"
    /\ LET op == procs[p].op
           metadataFileName == buildConfigMapMetadataFileName(op.name, op.namespace)
       IN  IF metadataFileName \notin DOMAIN dir
           THEN /\ dir' = dir
                /\ procs' = [procs EXCEPT ![p].pc = "unlock",
                                          ![p].res = [err |-> ErrIO]]
           ELSE /\ dir' = RemoveFiles(dir, {metadataFileName})
                /\ procs' = [procs EXCEPT ![p].pc = "rmdata"]
    /\ UNCHANGED <<last, scope, mutex>>

\* DeleteConfigMap: os.Remove of the next matching file of the listing, or
\* the return after the last one
DeleteRemoveData(p) ==
    /\ procs[p].pc = "rmdata"
    /\ LET f == MinStr(procs[p].todo)
       IN  IF procs[p].todo = {}
           THEN /\ dir' = dir
                /\ procs' = [procs EXCEPT ![p].pc = "unlock",
                                          ![p].res = [err |-> ErrNil]]
           ELSE IF f \notin DOMAIN dir
           THEN /\ dir' = dir
                /\ procs' = [procs EXCEPT ![p].pc = "unlock",
                                          ![p].res = [err |-> ErrIO]]
           ELSE /\ dir' = RemoveFiles(dir, {f})
                /\ procs' = [procs EXCEPT ![p].todo = procs[p].todo \ {f}]
    /\ UNCHANGED <<last, scope, mutex>>

\* GetConfigMaps: the body of the loop for one more unique name (metadata,
\* then the matching files of the listing), or the return after the last one
ListItem(p) ==
    /\ procs[p].pc = "item"
    /\ IF procs[p].todo = {}
       THEN procs' = [procs EXCEPT ![p].pc = "unlock"]
       ELSE \E name \in procs[p].todo :
              LET loaded == LoadMetadataFromDisk(dir, name \o "-k2dcm.metadata", NoFault)
                  itemNamespace == MapGet(loaded.metadata, NamespaceNameLabelKey)
                  itemName == TrimPrefix(name, itemNamespace \o "-")
                  filePrefix == buildConfigMapFilePrefix(itemName, itemNamespace)
                  matching == {f \in procs[p].files : HasPrefix(f, filePrefix)}
              IN  procs' = [procs EXCEPT ![p] =
                    IF loaded.err # ErrNil \/ ~(matching \subseteq DOMAIN dir)
                    THEN [procs[p] EXCEPT !.pc = "unlock",
                            !.res = [err |-> ErrIO, Items |-> NoConfigMap]]
                    ELSE [procs[p] EXCEPT !.todo = procs[p].todo \ {name},
                            !.res = [err |-> ErrNil,
                                     Items |-> MergeMapsInPlace(procs[p].res.Items,
                                        [n \in {name} |->
                                           [Name |-> itemName,
                                            Namespace |-> itemNamespace,
                                            Labels |-> loaded.metadata,
                                            Annotations |-> EmptyMap,
                                            Data |->
                                              [k \in {TrimPrefix(f, filePrefix) :
                                                         f \in matching} |->
                                                  dir[filePrefix \o k]]]])]]]
    /\ UNCHANGED <<dir, last, scope, mutex>>

\* an Unlock at the end of the function instead of a deferred one: a return
\* with an error keeps the mutex
Unlock_OnSuccessOnly(p) ==
    /\ procs[p].pc = "unlock"
    /\ mutex' = IF procs[p].res.err = ErrNil THEN "free" ELSE mutex
    /\ last' = [op |-> procs[p].op.kind, proc |-> p, res |-> procs[p].res]
    /\ procs' = [procs EXCEPT ![p] = [IdleProc EXCEPT !.calls = procs[p].calls]]
    /\ UNCHANGED <<dir, scope>>

\* the deferred s.mutex.Unlock() and the return to the caller
Unlock(p) ==
    /\ procs[p].pc = "unlock"
    /\ mutex' = "free"
    /\ last' = [op |-> procs[p].op.kind, proc |-> p, res |-> procs[p].res]
    /\ procs' = [procs EXCEPT ![p] = [IdleProc EXCEPT !.calls = procs[p].calls]]
    /\ UNCHANGED <<dir, scope>>

NextC ==
    \E p \in Procs :
        \/ Call(p)
        \/ Lock(p)
        \/ StoreWriteMetadata(p)
        \/ StoreWriteData(p)
        \/ ReadDir(p)
        \/ GetLoadMetadata(p)
        \/ GetReadFile(p)
        \/ DeleteRemoveMetadata(p)
        \/ DeleteRemoveData(p)
        \/ ListItem(p)
        \/ Unlock(p)

SpecC == InitC /\ [][NextC]_vars

\* a filesystem call of the operation of p returns an error (os.ReadDir, the
\* store or load of the metadata, the write, read or removal of a file): the
\* operation returns it, through the deferred Unlock, and leaves the
\* directory as the calls before it made it
FsCallFails(p) ==
    /\ \/ procs[p].pc \in {"metadata", "readdir", "loadmeta", "rmmeta"}
       \/ procs[p].pc \in {"data", "read", "rmdata", "item"} /\ procs[p].todo # {}
    /\ procs' = [procs EXCEPT ![p].pc = "unlock",
                   ![p].res =
                      IF procs[p].op.kind = "Get"
                      THEN [err |-> ErrIO, configMap |-> NoConfigMap]
                      ELSE IF procs[p].op.kind = "List"
                      THEN [err |-> ErrIO, Items |-> NoConfigMap]
                      ELSE [err |-> ErrIO]]
    /\ UNCHANGED <<dir, last, scope, mutex>>

\* a step of the operation p is in, once it holds the mutex
Running(p) ==
    \/ StoreWriteMetadata(p)
    \/ StoreWriteData(p)
    \/ ReadDir(p)
    \/ GetLoadMetadata(p)
    \/ GetReadFile(p)
    \/ DeleteRemoveMetadata(p)
    \/ DeleteRemoveData(p)
    \/ ListItem(p)
    \/ Unlock(p)

\* the number of calls the callers make in the runs with failing
\* filesystem calls
MaxFairCalls == 2

\* a caller enters one of the operations
CallL(p) ==
    /\ procs[p].pc = "idle"
    /\ TotalCalls(procs, Procs) < MaxFairCalls
    /\ \E op \in ConcOps :
         procs' = [procs EXCEPT ![p] =
                     [IdleProc EXCEPT !.pc = "lock", !.op = op,
                                      !.calls = procs[p].calls + 1]]
    /\ UNCHANGED <<dir, last, scope, mutex>>

NextL ==
    \E p \in Procs :
        \/ CallL(p)
        \/ Lock(p)
        \/ Running(p)
        \/ FsCallFails(p)

\* the scheduler runs every goroutine that can take a step: a caller inside
\* an operation goes on, and a caller blocked in Lock gets the mutex once it
\* stays free (the callers make a bounded number of calls, so the mutex is
\* not taken from a waiter for ever)
FairL == \A p \in Procs : WF_vars(Lock(p) \/ Running(p))

SpecL == InitC /\ [][NextL]_vars /\ FairL

(***************************************************************************)
(* Properties.                                                             *)
(***************************************************************************)

\* what the callers of the store guarantee about a namespace or a name
LegalName(s) == ~Contains(s, ConfigMapSeparator) /\ ~Contains(s, ".metadata")

LegalIdentity(id) == LegalName(id[1]) /\ LegalName(id[2])

LegalKeys(data) == \A k \in DOMAIN data : LegalName(k)

\* GetConfigMap(id) in directory d when no filesystem call fails
GetIn(d, id) == GetConfigMapResult(d, id[2], id[1], NoFault)

\* GetConfigMaps(namespace) in directory d when no filesystem call fails
ListIn(d, namespace) == GetConfigMapsResult(d, namespace, NoFault)

\* the identity a Store or Delete recorded in l was called for
IdentityOf(l) ==
    IF l.op = "Store" THEN <<l.configMap.Namespace, l.configMap.Name>>
    ELSE <<l.namespace, l.name>>

\* the data files of identity id in directory d
DataFiles(d, id) ==
    {f \in DOMAIN d : HasPrefix(f, buildConfigMapFilePrefix(id[2], id[1]))}

\* C1 as stated: after a successful StoreConfigMap of a resource with
\* namespace ns, name n, labels L and data D, GetConfigMap(n, ns) returns a
\* resource with namespace ns, name n, label set exactly L and data map
\* exactly D.
C1_GetReturnsExactlyTheStoredLabelsAndData ==
    (/\ last.op = "Store" /\ last.err = ErrNil
     /\ LegalIdentity(IdentityOf(last)) /\ LegalKeys(last.configMap.Data))
    => LET cm == last.configMap
           r  == GetIn(dir, IdentityOf(last))
       IN  /\ r.err = ErrNil
           /\ r.configMap.Namespace = cm.Namespace
           /\ r.configMap.Name = cm.Name
           /\ r.configMap.Labels = cm.Labels
           /\ r.configMap.Data = cm.Data

\* C1, amended: after a successful StoreConfigMap(ns, n, L, D) the next
\* GetConfigMap(n, ns) returns ErrResourceNotFound when D is empty and no
\* file with the data-file prefix of (ns, n) was there before; otherwise it
\* returns namespace ns, name n, the labels L together with
\* NamespaceNameLabelKey -> ns (the entry of L winning when L has that key),
\* and the data map that holds D on the keys of D and, on every other key,
\* what the files with that prefix held before the Store (so exactly D when
\* there was no such file).
C1_RoundTrip ==
    [][(/\ last'.op = "Store" /\ last'.err = ErrNil
        /\ LegalIdentity(IdentityOf(last')) /\ LegalKeys(last'.configMap.Data))
       => LET cm     == last'.configMap
              before == DataOfFiles(dir,
                           buildConfigMapFilePrefix(cm.Name, cm.Namespace))
              r      == GetIn(dir', IdentityOf(last'))
          IN  IF DOMAIN cm.Data = {} /\ DOMAIN before = {}
              THEN r.err = ErrResourceNotFound
              ELSE /\ r.err = ErrNil
                   /\ r.configMap.Namespace = cm.Namespace
                   /\ r.configMap.Name = cm.Name
                   /\ DOMAIN r.configMap.Labels =
                          DOMAIN cm.Labels \cup {NamespaceNameLabelKey}
                   /\ \A k \in DOMAIN cm.Labels :
                          r.configMap.Labels[k] = cm.Labels[k]
                   /\ NamespaceNameLabelKey \notin DOMAIN cm.Labels
                          => r.configMap.Labels[NamespaceNameLabelKey] = cm.Namespace
                   /\ DOMAIN r.configMap.Data = DOMAIN cm.Data \cup DOMAIN before
                   /\ \A k \in DOMAIN r.configMap.Data :
                          r.configMap.Data[k] =
                              IF k \in DOMAIN cm.Data THEN cm.Data[k] ELSE before[k]
      ]_vars

\* C1 witness: a resource with a label, a data key with a value and a data
\* key with the empty value has been stored and reads back
C1_Witness ==
    /\ last.op = "Store" /\ last.err = ErrNil
    /\ LegalIdentity(IdentityOf(last))
    /\ "env" \in DOMAIN last.configMap.Labels
    /\ \E k \in DOMAIN last.configMap.Data : last.configMap.Data[k] = ""
    /\ GetIn(dir, IdentityOf(last)).err = ErrNil
    /\ GetIn(dir, IdentityOf(last)).configMap.Data = last.configMap.Data

\* the naming functions keep the files of the distinct identities of S apart
CollisionFree(S) ==
    \A id1 \in S, id2 \in S :
        id1 # id2 =>
            /\ buildConfigMapMetadataFileName(id1[2], id1[1])
                   # buildConfigMapMetadataFileName(id2[2], id2[1])
            /\ ~HasPrefix(buildConfigMapFilePrefix(id2[2], id2[1]),
                          buildConfigMapFilePrefix(id1[2], id1[1]))

\* C2: for two distinct identities whose namespaces and names are free of
\* the separator token and of the metadata suffix, the metadata file names
\* differ, the data-file prefixes differ, no data file of one starts with
\* the prefix of the other, and no file of the directory belongs to both.
C2_NamingIsCollisionFree ==
    \A id1 \in scope, id2 \in scope :
        (id1 # id2 /\ LegalIdentity(id1) /\ LegalIdentity(id2)) =>
            /\ buildConfigMapMetadataFileName(id1[2], id1[1])
                   # buildConfigMapMetadataFileName(id2[2], id2[1])
            /\ buildConfigMapFilePrefix(id1[2], id1[1])
                   # buildConfigMapFilePrefix(id2[2], id2[1])
            /\ \A dm \in DataMaps : \A k \in DOMAIN dm :
                   ~HasPrefix(buildConfigMapFilePrefix(id2[2], id2[1]) \o k,
                              buildConfigMapFilePrefix(id1[2], id1[1]))
            /\ FilesOf(dir, id1[2], id1[1]) \cap FilesOf(dir, id2[2], id2[1]) = {}

\* the data keys the callers of the store use
CallerKeys == UNION {DOMAIN dm : dm \in DataMaps}

\* C3: for two identities with the same name in different namespaces, what
\* GetConfigMap returns for one holds only data keys stored for it, and a
\* Store or Delete of the other never changes it.
C3_SameNameInTwoNamespacesIsIsolated ==
    [][\A id1 \in scope, id2 \in scope :
          (/\ id1[2] = id2[2] /\ id1[1] # id2[1]
           /\ GetIn(dir, id2).err = ErrNil
           /\ last'.op \in {"Store", "Delete"}
           /\ IdentityOf(last') = id1)
          => /\ GetIn(dir', id2) = GetIn(dir, id2)
             /\ GetIn(dir', id1).err = ErrNil
                    => DOMAIN GetIn(dir', id1).configMap.Data \subseteq CallerKeys
      ]_vars

\* every data file of an identity of S has its metadata file next to it
NoHalfState(d, S) ==
    \A id \in S : DataFiles(d, id) # {}
                      => buildConfigMapMetadataFileName(id[2], id[1]) \in DOMAIN d

\* every metadata file of d records the namespace its file name starts with
OwnNamespaceRecorded(d, S) ==
    \A id \in S :
        LET f == buildConfigMapMetadataFileName(id[2], id[1])
        IN  f \in DOMAIN d =>
                MapGet(DecodeMetadata(d[f]).metadata, NamespaceNameLabelKey) = id[1]

\* C4: GetConfigMaps(A) returns exactly one item per resource that exists in
\* namespace A, none of another namespace, each with the data stored for it
\* (stated for identities that the naming keeps apart, in directories that
\* successful operations leave).
C4_ListReturnsExactlyTheResourcesOfTheNamespace ==
    (/\ CollisionFree(scope)
     /\ NoHalfState(dir, scope) /\ OwnNamespaceRecorded(dir, scope))
    => \A A \in {id[1] : id \in scope} :
         LET r        == ListIn(dir, A)
             existing == {id \in scope : id[1] = A /\ DataFiles(dir, id) # {}}
         IN  /\ r.err = ErrNil
             /\ Cardinality(DOMAIN r.Items) = Cardinality(existing)
             /\ {<<r.Items[i].Namespace, r.Items[i].Name>> : i \in DOMAIN r.Items}
                    = existing
             /\ \A i \in DOMAIN r.Items :
                    r.Items[i].Data =
                        GetIn(dir, <<r.Items[i].Namespace, r.Items[i].Name>>).configMap.Data

\* C5: when the only resource ever stored is one identity, GetConfigMap and
\* DeleteConfigMap of any other identity return ErrResourceNotFound.
C5_NeverStoredIsNotFound ==
    (/\ last.op = "Store" /\ last.err = ErrNil
     /\ DOMAIN dir = FilesWritten(last.configMap))
    => \A id \in scope \ {IdentityOf(last)} :
          /\ GetIn(dir, id).err = ErrResourceNotFound
          /\ DeleteConfigMapResult(dir, id[2], id[1], NoFault).err
                 = ErrResourceNotFound

\* C6: whenever DeleteConfigMap(n, ns) returns nil, no file of the directory
\* starts with the data-file prefix of (ns, n), and GetConfigMap(n, ns)
\* returns ErrResourceNotFound right after it and still after a following
\* operation that is not a Store of (ns, n).
C6_DeleteCompleteness ==
    [][/\ (last'.op = "Delete" /\ last'.err = ErrNil)
          => /\ DataFiles(dir', IdentityOf(last')) = {}
             /\ GetIn(dir', IdentityOf(last')).err = ErrResourceNotFound
       /\ (/\ last.op = "Delete" /\ last.err = ErrNil
           /\ LegalIdentity(IdentityOf(last))
           /\ ~(last'.op = "Store" /\ IdentityOf(last') = IdentityOf(last)))
          => /\ DataFiles(dir', IdentityOf(last)) = {}
             /\ GetIn(dir', IdentityOf(last)).err = ErrResourceNotFound
      ]_vars

\* C7 as stated: after Store(ns, n, D1) and then Store(ns, n, D2), Get returns
\* a data map whose keys are exactly the keys of D1 and of D2, with the value
\* of D2 for the keys of D2 and the value of D1 for the keys only in D1; the
\* second Store removes no file.
C7_GetReturnsTheUnionOfTheTwoDataMaps ==
    [][(/\ last.op = "Store" /\ last.err = ErrNil
        /\ last'.op = "Store" /\ last'.err = ErrNil
        /\ IdentityOf(last) = IdentityOf(last'))
       => LET D1 == last.configMap.Data
              D2 == last'.configMap.Data
              r  == GetIn(dir', IdentityOf(last'))
          IN  /\ r.err = ErrNil
              /\ DOMAIN r.configMap.Data = DOMAIN D1 \cup DOMAIN D2
              /\ \A k \in DOMAIN r.configMap.Data :
                     r.configMap.Data[k] = IF k \in DOMAIN D2 THEN D2[k] ELSE D1[k]
              /\ DOMAIN dir \subseteq DOMAIN dir'
      ]_vars

\* C7, amended: after Store(ns, n, D1) and then Store(ns, n, D2), Get returns
\* ErrResourceNotFound when no data file with the prefix of (ns, n) exists
\* (D1 and D2 empty and none left by earlier Stores); otherwise its data map
\* has the value of D2 for every key of D2, the unchanged value of D1 for
\* every key only in D1, and for every further key the unchanged content of
\* the file with that prefix that was on disk before; the second Store
\* removes no file and changes no file but those it writes.
C7_Overwrite ==
    [][(/\ last.op = "Store" /\ last.err = ErrNil
        /\ last'.op = "Store" /\ last'.err = ErrNil
        /\ IdentityOf(last) = IdentityOf(last'))
       => LET D1     == last.configMap.Data
              D2     == last'.configMap.Data
              before == DataOfFiles(dir,
                           buildConfigMapFilePrefix(last'.configMap.Name,
                                                    last'.configMap.Namespace))
              r      == GetIn(dir', IdentityOf(last'))
          IN  /\ IF DOMAIN before = {} /\ DOMAIN D2 = {}
                 THEN r.err = ErrResourceNotFound
                 ELSE /\ r.err = ErrNil
                      /\ DOMAIN r.configMap.Data = DOMAIN before \cup DOMAIN D2
                      /\ DOMAIN D1 \subseteq DOMAIN r.configMap.Data
                      /\ \A k \in DOMAIN r.configMap.Data :
                             r.configMap.Data[k] =
                                 IF k \in DOMAIN D2 THEN D2[k]
                                 ELSE IF k \in DOMAIN D1 THEN D1[k]
                                 ELSE before[k]
              /\ DOMAIN dir \subseteq DOMAIN dir'
              /\ \A f \in DOMAIN dir \ FilesWritten(last'.configMap) :
                     dir'[f] = dir[f]
      ]_vars

\* C7 witness: the second Store changed the value of x and the key y of the
\* first Store is still read
C7_Witness ==
    /\ last.op = "Store" /\ last.err = ErrNil
    /\ last.configMap.Data = [k \in {"x"} |-> "2"]
    /\ GetIn(dir, IdentityOf(last)).err = ErrNil
    /\ GetIn(dir, IdentityOf(last)).configMap.Data =
           [k \in {"x", "y"} |-> IF k = "x" THEN "2" ELSE ""]

\* C8: the resource GetConfigMap returns carries exactly one annotation
\* FilePathAnnotationKey/<key> per key of its data map, whose value is the
\* path of the data file that holds the value of that key; GetConfigMapBinds
\* of that resource maps exactly the keys of the data map to those paths.
C8_BindAnnotations ==
    /\ (last.op = "Get" /\ last.err = ErrNil) =>
          LET cm == last.configMap
              filePrefix == buildConfigMapFilePrefix(cm.Name, cm.Namespace)
          IN  /\ DOMAIN cm.Annotations =
                     {FilePathAnnotationKey \o "/" \o k : k \in DOMAIN cm.Data}
              /\ \A k \in DOMAIN cm.Data :
                     /\ filePrefix \o k \in DOMAIN dir
                     /\ dir[filePrefix \o k] = cm.Data[k]
                     /\ cm.Annotations[FilePathAnnotationKey \o "/" \o k]
                            = configMapPath \o "/" \o filePrefix \o k
    /\ last.op = "Binds" =>
          /\ DOMAIN last.binds = DOMAIN last.configMap.Data
          /\ \A k \in DOMAIN last.binds :
                 last.binds[k] =
                     last.configMap.Annotations[FilePathAnnotationKey \o "/" \o k]

\* C8 witness: the binds of a resource with two data keys have been derived
C8_Witness ==
    /\ last.op = "Binds"
    /\ {"x", "y"} \subseteq DOMAIN last.binds
    /\ {"x", "y"} \subseteq DOMAIN last.configMap.Data

\* what the operation of caller pr returns, and the directory it leaves,
\* when it runs alone on the directory pr.snap
Alone(pr) ==
    IF pr.op.kind = "Store"
    THEN LET r == StoreConfigMapResult(pr.snap, pr.op.configMap, NoFault,
                                       DOMAIN pr.op.configMap.Data)
         IN  [res |-> [err |-> r.err], dir |-> r.dir]
    ELSE IF pr.op.kind = "Delete"
    THEN LET r == DeleteConfigMapResult(pr.snap, pr.op.name, pr.op.namespace, NoFault)
         IN  [res |-> [err |-> r.err], dir |-> r.dir]
    ELSE IF pr.op.kind = "Get"
    THEN [res |-> GetConfigMapResult(pr.snap, pr.op.name, pr.op.namespace, NoFault),
          dir |-> pr.snap]
    ELSE [res |-> GetConfigMapsResult(pr.snap, pr.op.namespace, NoFault),
          dir |-> pr.snap]

\* C9: a caller that is between its first and its last filesystem access
\* holds the mutex, so no caller reads the directory while another one is
\* between two writes or two removals, and when an operation returns, its
\* result and the directory are those of running it alone on the directory
\* it found when it took the mutex.
C9_Serialization ==
    \A p \in Procs :
        /\ procs[p].pc \in Holding => mutex = p
        /\ procs[p].pc \in {"readdir", "loadmeta", "read", "item"} =>
              \A q \in Procs \ {p} :
                  procs[q].pc \notin {"metadata", "data", "rmmeta", "rmdata"}
        /\ procs[p].pc = "unlock" =>
              /\ procs[p].res = Alone(procs[p]).res
              /\ dir = Alone(procs[p]).dir

\* C9 witness: a Store has written its metadata file and one of its two data
\* files while another caller waits for the mutex with a Get
C9_Witness ==
    \E p \in Procs, q \in Procs :
        /\ procs[p].pc = "data" /\ Cardinality(procs[p].todo) = 1
        /\ Cardinality(DOMAIN procs[p].op.configMap.Data) = 2
        /\ procs[q].pc = "lock" /\ procs[q].op.kind = "Get"
        /\ mutex = p

\* C10: when DeleteConfigMap(n, ns) finds a matching data file and the
\* removal of the metadata file fails, it returns an error that is not
\* ErrResourceNotFound and leaves the directory as it was.
C10_MetadataRemovalFailure ==
    [][(/\ last'.op = "Delete"
        /\ last'.fault.kind # "readdir"
        /\ DataFiles(dir, IdentityOf(last')) # {}
        /\ LET f == buildConfigMapMetadataFileName(last'.name, last'.namespace)
           IN  f \notin DOMAIN dir \/ Fails(last'.fault, f))
       => /\ last'.err \notin {ErrNil, ErrResourceNotFound}
          /\ dir' = dir
      ]_vars

\* C10 witness: a Delete failed at the metadata file of a resource that has
\* its metadata file and data files, which are all still there
C10_Witness ==
    /\ last.op = "Delete" /\ last.err = ErrIO
    /\ Fails(last.fault, buildConfigMapMetadataFileName(last.name, last.namespace))
    /\ buildConfigMapMetadataFileName(last.name, last.namespace) \in DOMAIN dir
    /\ Cardinality(DataFiles(dir, IdentityOf(last))) >= 2


\* the half-deleted state of identity id: its metadata file is gone and a
\* directory entry with its data-file prefix is left
HalfDeleted(d, id) ==
    /\ buildConfigMapMetadataFileName(id[2], id[1]) \notin DOMAIN d
    /\ DataFiles(d, id) # {}

\* C11 as stated: after a DeleteConfigMap(n, ns) whose metadata removal
\* succeeded and whose data removal failed, as long as a data file with the
\* prefix is left, GetConfigMap(n, ns) returns a resource with the remaining
\* data keys and no error.
C11_GetReturnsTheRemainingKeys ==
    (/\ last.op = "Delete" /\ last.err = ErrIO
     /\ HalfDeleted(dir, IdentityOf(last)))
    => LET r == GetIn(dir, IdentityOf(last))
       IN  /\ r.err = ErrNil
           /\ DOMAIN r.configMap.Data =
                 {TrimPrefix(f, buildConfigMapFilePrefix(last.name, last.namespace)) :
                    f \in DataFiles(dir, IdentityOf(last))}

\* C11, amended: while the metadata file of (ns, n) is missing and a data
\* file with its prefix is left, GetConfigMap(n, ns) passes the existence
\* test and fails at the load of the metadata: it returns an error that is
\* not ErrResourceNotFound, and no resource.
C11_HalfDeletedGetFails ==
    /\ \A id \in scope :
          HalfDeleted(dir, id) =>
              /\ GetIn(dir, id).err \notin {ErrNil, ErrResourceNotFound}
              /\ GetIn(dir, id).configMap = NoConfigMap
    /\ (last.op = "Get" /\ HalfDeleted(dir, IdentityOf(last)))
          => last.err \notin {ErrNil, ErrResourceNotFound}
                /\ last.configMap = NoConfigMap

\* C11 witness: a Get has failed for an identity whose metadata file a
\* Delete removed while one of its data files is still there
C11_Witness ==
    /\ last.op = "Get" /\ last.err = ErrIO
    /\ HalfDeleted(dir, IdentityOf(last))
    /\ \E f \in DataFiles(dir, IdentityOf(last)) :
          TrimPrefix(f, buildConfigMapFilePrefix(last.name, last.namespace))
             \in CallerKeys

\* C12: GetConfigMap and DeleteConfigMap return ErrResourceNotFound exactly
\* when no directory entry starts with the data-file prefix of (ns, n),
\* whether or not the metadata file exists; before a matching entry is found
\* the metadata file is neither read (a failing read of it does not show)
\* nor removed.
C12_ExistenceIsDecidedByDataFiles ==
    \A id \in scope :
        LET metadataFileName == buildConfigMapMetadataFileName(id[2], id[1])
            get(fault) == GetConfigMapResult(dir, id[2], id[1], fault)
            del(fault) == DeleteConfigMapResult(dir, id[2], id[1], fault)
        IN  \A fault \in {NoFault, FileFault(metadataFileName)} :
               /\ get(fault).err = ErrResourceNotFound <=> DataFiles(dir, id) = {}
               /\ del(fault).err = ErrResourceNotFound <=> DataFiles(dir, id) = {}
               /\ DataFiles(dir, id) = {} => del(fault).dir = dir

\* C12 witness: a Get has returned ErrResourceNotFound for an identity whose
\* metadata file exists
C12_Witness ==
    /\ last.op = "Get" /\ last.err = ErrResourceNotFound
    /\ buildConfigMapMetadataFileName(last.name, last.namespace) \in DOMAIN dir
    /\ DataFiles(dir, IdentityOf(last)) = {}


\* the runs made of Store operations only, successful or failing at any
\* step, observed with GetConfigMap
NextS == StoreConfigMap \/ StoreConfigMapFailing \/ GetConfigMap

SpecS == Init /\ [][NextS]_vars

\* C13: in every state reached through Store operations only, successful or
\* failing at any step, an identity that has a directory entry with its
\* data-file prefix has its metadata file too, and GetConfigMap of it does
\* not fail.
C13_StoreNeverLeavesDataWithoutMetadata ==
    \A id \in scope :
        (LegalIdentity(id) /\ DataFiles(dir, id) # {})
        => /\ buildConfigMapMetadataFileName(id[2], id[1]) \in DOMAIN dir
           /\ GetIn(dir, id).err = ErrNil


\* the namespaces of the identities of S
NamespacesOf(S) == {id[1] : id \in S}

\* C14: whenever GetConfigMaps(ns) succeeds, every item it returns equals
\* what GetConfigMap(item.Name, ns) returns: the same name, namespace,
\* labels, data map and bind annotations.
C14_ListItemsEqualGet ==
    \A ns \in NamespacesOf(scope) :
        ListIn(dir, ns).err = ErrNil =>
            \A u \in DOMAIN ListIn(dir, ns).Items :
                LET item == ListIn(dir, ns).Items[u]
                    r    == GetIn(dir, <<ns, item.Name>>)
                IN  /\ r.err = ErrNil
                    /\ item.Name = r.configMap.Name
                    /\ item.Namespace = r.configMap.Namespace
                    /\ item.Labels = r.configMap.Labels
                    /\ item.Data = r.configMap.Data
                    /\ item.Annotations = r.configMap.Annotations

\* C15: after a successful StoreConfigMap(ns, n, L, D) with a data key, for
\* any label set L, the metadata file maps NamespaceNameLabelKey to ns and
\* GetConfigMaps(ns) returns an item with Namespace = ns and Name = n.
C15_StoreRecordsTheOwningNamespace ==
    (/\ last.op = "Store" /\ last.err = ErrNil
     /\ LegalIdentity(IdentityOf(last)) /\ LegalKeys(last.configMap.Data)
     /\ last.configMap.Data # EmptyMap)
    => LET cm == last.configMap
           f  == buildConfigMapMetadataFileName(cm.Name, cm.Namespace)
           r  == ListIn(dir, cm.Namespace)
       IN  /\ f \in DOMAIN dir
           /\ MapGet(DecodeMetadata(dir[f]).metadata, NamespaceNameLabelKey)
                 = cm.Namespace
           /\ r.err = ErrNil
           /\ \E u \in DOMAIN r.Items :
                 r.Items[u].Namespace = cm.Namespace /\ r.Items[u].Name = cm.Name

\* the unique names GetConfigMaps(namespace) visits in directory d
ListedNames(d, namespace) ==
    RemoveItemsWithSuffix(
        FilterStringsByPrefix(UniquePrefixes(DOMAIN d, ConfigMapSeparator), namespace),
        ".metadata")

\* C16: GetConfigMaps is all-or-nothing.  When the metadata of one of the
\* names it visits is missing or cannot be read, or a data file of a listed
\* identity cannot be read, it returns an error and an empty list, never the
\* identities that could be loaded; when it succeeds it returns an item for
\* every name it visits.
C16_ListIsAllOrNothing ==
    /\ last.op = "List" /\ last.err # ErrNil => last.Items = NoConfigMap
    /\ \A ns \in NamespacesOf(scope) : \A fault \in FaultsOn(DOMAIN dir) :
          LET r == GetConfigMapsResult(dir, ns, fault)
          IN  /\ r.err # ErrNil => r.Items = NoConfigMap
              /\ r.err = ErrNil => DOMAIN r.Items = ListedNames(dir, ns)
              /\ (\E u \in ListedNames(dir, ns) :
                     \/ u \o "-k2dcm.metadata" \notin DOMAIN dir
                     \/ Fails(fault, u \o "-k2dcm.metadata"))
                 => r.err # ErrNil
              /\ \A id \in scope :
                    (/\ id[1] = ns
                     /\ id[1] \o "-" \o id[2] \in ListedNames(dir, ns)
                     /\ OwnNamespaceRecorded(dir, {id})
                     /\ \E f \in DataFiles(dir, id) : Fails(fault, f))
                    => r.err # ErrNil

\* C16 witness: a List has failed with no injected failure because one
\* identity it visits is half-deleted, while GetConfigMap returns another
\* identity it visits
C16_Witness ==
    /\ last.op = "List" /\ last.err = ErrIO /\ last.Items = NoConfigMap
    /\ ListIn(dir, last.namespace).err = ErrIO
    /\ \E id1 \in scope, id2 \in scope :
          /\ id1 # id2
          /\ {id1[1] \o "-" \o id1[2], id2[1] \o "-" \o id2[2]}
                \subseteq ListedNames(dir, last.namespace)
          /\ HalfDeleted(dir, id1)
          /\ GetIn(dir, id2).err = ErrNil


\* C17: once identity (ns, n) is half-deleted, every DeleteConfigMap(n, ns)
\* fails at the removal of the metadata file with an error that is not
\* ErrResourceNotFound and removes no file, and the remaining data files
\* stay in the directory over every operation that is not a Store of
\* (ns, n).
C17_HalfDeletedCannotBeDeleted ==
    [][\A id \in scope :
          (HalfDeleted(dir, id) /\ LegalIdentity(id)) =>
              /\ (last'.op = "Delete" /\ IdentityOf(last') = id)
                    => /\ last'.err \notin {ErrNil, ErrResourceNotFound}
                       /\ dir' = dir
              /\ ~(last'.op = "Store" /\ IdentityOf(last') = id)
                    => DataFiles(dir, id) \subseteq DOMAIN dir'
      ]_vars

\* C19: a step of GetConfigMap, GetConfigMaps or GetConfigMapBinds, and a
\* DeleteConfigMap that returns ErrResourceNotFound, leave the files of the
\* directory and their contents unchanged.
C19_ReadsAreReadOnly ==
    [][(\/ last'.op \in {"Get", "List", "Binds"}
        \/ last'.op = "Delete" /\ last'.err = ErrResourceNotFound)
       => dir' = dir
      ]_vars

\* C19 witness: a Delete has returned ErrResourceNotFound for an identity
\* whose metadata file exists and is still there
C19_Witness ==
    /\ last.op = "Delete" /\ last.err = ErrResourceNotFound
    /\ buildConfigMapMetadataFileName(last.name, last.namespace) \in DOMAIN dir

\* C20: DeleteConfigMap(n, ns), whether it succeeds or fails at any step,
\* removes only the metadata file of (ns, n) and files with its data-file
\* prefix, and the files of every other identity (namespaces and names free
\* of the separator token) stay present with their content, so that
\* GetConfigMap of those identities returns what it returned before.
C20_DeleteTouchesOnlyItsOwnResource ==
    [][last'.op = "Delete" =>
          /\ (DOMAIN dir) \ (DOMAIN dir')
                \subseteq FilesOf(dir, last'.name, last'.namespace)
          /\ \A f \in (DOMAIN dir) \cap (DOMAIN dir') : dir'[f] = dir[f]
          /\ \A id \in scope :
                (/\ id # IdentityOf(last')
                 /\ LegalIdentity(id) /\ LegalIdentity(IdentityOf(last')))
                => /\ \A f \in FilesOf(dir, id[2], id[1]) \cap DOMAIN dir :
                         f \in DOMAIN dir' /\ dir'[f] = dir[f]
                   /\ GetIn(dir', id) = GetIn(dir, id)
      ]_vars


\* C18: every return of an operation, with or without an error, releases
\* the mutex, so the mutex is held only by a caller that is inside an
\* operation; and under fair scheduling every caller that waits for the
\* mutex gets it, and every operation that was called returns.
C18_LockReleaseAndProgress ==
    /\ [](\A p \in Procs : mutex = p => procs[p].pc \in Holding)
    /\ []((\A p \in Procs : procs[p].pc \notin Holding) => mutex = "free")
    /\ [][\A p \in Procs :
             (procs[p].pc \in Holding /\ procs'[p].pc \notin Holding)
                 => mutex = p /\ mutex' = "free"]_vars
    /\ \A p \in Procs : (procs[p].pc = "lock") ~> (mutex = p)
    /\ \A p \in Procs : (procs[p].pc # "idle") ~> (procs[p].pc = "idle")

\* C18 witness: a call has returned an error, and the other caller, in a
\* call too, holds the mutex after it
C18_Witness ==
    \E p \in Procs, q \in Procs :
        /\ p # q
        /\ last.op # "none" /\ last.proc = p /\ last.res.err = ErrIO
        /\ procs[p].pc = "idle"
        /\ mutex = q /\ procs[q].pc \in Holding

====
